---- MODULE Spec2Model ----
(***************************************************************************)
(* rad-detiler (src/main.c): detiling of a Radeon tiled framebuffer dump.  *)
(* The frame is a grid of macro-tiles (64 rows x 32 columns of 32-bit      *)
(* words); each macro-tile holds 32 micro-tiles (8x8 words).  main() reads *)
(* the whole input, checks its size, decodes one macro-tile after another  *)
(* into a zeroed output buffer and writes the buffer out.                  *)
(*                                                                         *)
(* The frame geometry is scaled: the source fixes WIDTH = 1280 = 20 * 32   *)
(* and HEIGHT = 768 = 12 * 64; here the two macro-tile counts are bounds,  *)
(* chosen so that both row parities and all four column classes occur.     *)
(***************************************************************************)
EXTENDS Integers, Sequences, FiniteSets, TLC

MtileRows == 2
MtileCols == 4

WIDTH == MtileCols * 32
HEIGHT == MtileRows * 64

FULL_WIDTH == 1280

NUM_UTILES == (WIDTH * HEIGHT) \div (8 * 8)
NUM_UTILES_PER_MTILE == 4 * 8
NUM_MTILES == NUM_UTILES \div NUM_UTILES_PER_MTILE
NUM_WORDS_PER_UTILE == 8 * 8

\* WIDTH * HEIGHT * 4, the byte size the assertion at line 162 demands
EXPECTED_SIZE == WIDTH * HEIGHT * 4

NumWords == WIDTH * HEIGHT
Words == 0 .. (NumWords - 1)

----------------------------------------------------------------------------
(* The constant tables.  C indexes from 0, sequences from 1: T[r][c] of the *)
(* source is T[r + 1][c + 1] here.                                          *)

utile_decoder ==
  << <<0, 1, 2, 3, 8, 9, 10, 11>>,
     <<4, 5, 6, 7, 12, 13, 14, 15>>,
     <<16, 17, 18, 19, 24, 25, 26, 27>>,
     <<20, 21, 22, 23, 28, 29, 30, 31>>,
     <<32, 33, 34, 35, 40, 41, 42, 43>>,
     <<36, 37, 38, 39, 44, 45, 46, 47>>,
     <<48, 49, 50, 51, 56, 57, 58, 59>>,
     <<52, 53, 54, 55, 60, 61, 62, 63>> >>

\* a table with 16 twice and without 17
mtile_decoder_0x_dup ==
  << <<0, 1, 2, 3>>,
     <<4, 5, 6, 7>>,
     <<8, 9, 10, 11>>,
     <<12, 13, 14, 15>>,
     <<16, 16, 19, 18>>,
     <<21, 20, 23, 22>>,
     <<25, 24, 27, 26>>,
     <<29, 28, 31, 30>> >>

mtile_decoder_0x ==
  << <<0, 1, 2, 3>>,
     <<4, 5, 6, 7>>,
     <<8, 9, 10, 11>>,
     <<12, 13, 14, 15>>,
     <<17, 16, 19, 18>>,
     <<21, 20, 23, 22>>,
     <<25, 24, 27, 26>>,
     <<29, 28, 31, 30>> >>

\* a table whose second row names row 5 twice and row 4 never
mtile_decoder_0_dup ==
  << <<0, 4, 2, 6, 1, 5, 3, 7>>,
     <<1, 5, 3, 7, 0, 5, 2, 6>>,
     <<2, 6, 0, 4, 3, 7, 1, 5>>,
     <<3, 7, 1, 5, 2, 6, 0, 4>> >>

mtile_decoder_0 ==
  << <<0, 4, 2, 6, 1, 5, 3, 7>>,
     <<1, 5, 3, 7, 0, 4, 2, 6>>,
     <<2, 6, 0, 4, 3, 7, 1, 5>>,
     <<3, 7, 1, 5, 2, 6, 0, 4>> >>

\* a table that lost an entry: 1 is missing from the first row
mtile_decoder_1x_dup ==
  << <<2, 3, 0, 0>>,
     <<6, 7, 4, 5>>,
     <<10, 11, 8, 9>>,
     <<14, 15, 12, 13>>,
     <<19, 18, 17, 16>>,
     <<23, 22, 21, 20>>,
     <<27, 26, 25, 24>>,
     <<31, 30, 29, 28>> >>

mtile_decoder_1x ==
  << <<2, 3, 0, 1>>,
     <<6, 7, 4, 5>>,
     <<10, 11, 8, 9>>,
     <<14, 15, 12, 13>>,
     <<19, 18, 17, 16>>,
     <<23, 22, 21, 20>>,
     <<27, 26, 25, 24>>,
     <<31, 30, 29, 28>> >>

mtile_decoder_1 ==
  << <<1, 5, 3, 7, 0, 4, 2, 6>>,
     <<0, 4, 2, 6, 1, 5, 3, 7>>,
     <<3, 7, 1, 5, 2, 6, 0, 4>>,
     <<2, 6, 0, 4, 3, 7, 1, 5>> >>

----------------------------------------------------------------------------
(* The input.  A file has a length in bytes and a content.  The length is  *)
(* kept as hi * 2^32 + lo with lo in the range of a 32-bit int, so that    *)
(* the narrowing of ftell()'s long to `int size` is visible.               *)

FileLens ==
  { [hi |-> 0, lo |-> EXPECTED_SIZE],
    [hi |-> 0, lo |-> EXPECTED_SIZE - 1],
    [hi |-> 0, lo |-> EXPECTED_SIZE + 4],
    [hi |-> 1, lo |-> EXPECTED_SIZE] }

\* `size = ftell(f)`: long narrowed to int keeps the low 32 bits (LP64)
ftell_to_int(len) == len.lo

FileKinds == {"marker", "pattern"}

\* the 32-bit word at word offset k of a buffer of the given content:
\* "marker" holds its own index, the others arbitrary repeating content
InWord(kind, k) ==
  IF kind = "marker" THEN k
  ELSE IF kind = "pattern" THEN (k * 37 + 11) % 251
  ELSE (k * 13 + 5) % 7

VARIABLES
  pc,             \* position of main
  status,         \* exit status of the process, "running" until it ends
  argc,
  fileLen,        \* length of the input file
  fileKind,       \* content of the input file
  size,           \* int size
  bufKind,        \* content of the heap buffer buf
  readOk,         \* fread delivered the whole file
  cursor,         \* buf, in words past the start of the input buffer
  out,            \* the output buffer, << >> before it is allocated
  utile,          \* static uint32_t utile[64] of decode_mtile
  row, col,       \* loop variables of main
  mtile,          \* mtile, in words past the start of out
  outOpened,      \* the output file has been opened
  outWritten,     \* "none", "full" or "short"
  calls,          \* history: <<row, col, cursor, mtile>> of each decode_mtile call
  wcount,         \* history: how often each output word was written
  utilesDecoded,  \* history: number of decode_utile calls
  matchAsserts,   \* history: number of evaluations of assert(ur < 8 && uc < 4)
  sizeChecked,    \* history: assert(size == WIDTH * HEIGHT * 4) was evaluated
  workers         \* concurrent decode_mtile executions (ParSpec only)

vars == << pc, status, argc, fileLen, fileKind, size, bufKind, readOk, cursor,
           out, utile, row, col, mtile, outOpened, outWritten, calls,
           wcount, utilesDecoded, matchAsserts, sizeChecked, workers >>

----------------------------------------------------------------------------
(* decode_utile and the pieces of decode_mtile                             *)

\* decode_utile(&buf[base], utile): out[row * 8 + col] = buf[utile_decoder[row][col]]
decode_utile(kind, base) ==
  [o \in 0 .. 63 |-> InWord(kind, base + utile_decoder[(o \div 8) + 1][(o % 8) + 1])]

\* the input words decode_utile reads
UtileReads(base) ==
  { base + utile_decoder[r + 1][c + 1] : r \in 0 .. 7, c \in 0 .. 7 }

\* the coarse-cell search, lines 110-118: ur and uc run in row-major order
\* (scan position k is ur = k / 4, uc = k % 4) and the loops are left at the
\* first match; without a match they end with ur = 8 and uc = 4
CellMatches(odd, idx) ==
  { k \in 0 .. 31 :
      \/ (~odd /\ mtile_decoder_0x[(k \div 4) + 1][(k % 4) + 1] = idx)
      \/ (odd /\ mtile_decoder_1x[(k \div 4) + 1][(k % 4) + 1] = idx) }

FindCell(odd, idx) ==
  IF CellMatches(odd, idx) = {}
  THEN <<8, 4>>
  ELSE LET k == CHOOSE m \in CellMatches(odd, idx) :
                  \A n \in CellMatches(odd, idx) : m <= n
       IN  <<k \div 4, k % 4>>

\* the row refinement, lines 120-126: the first j with table[col % 4][j] == ur,
\* or 8 when the loop ends without a match
RowMatches(odd, cm, ur) ==
  { j \in 0 .. 7 :
      \/ (~odd /\ mtile_decoder_0[cm + 1][j + 1] = ur)
      \/ (odd /\ mtile_decoder_1[cm + 1][j + 1] = ur) }

FindRow(odd, cm, ur) ==
  IF RowMatches(odd, cm, ur) = {}
  THEN 8
  ELSE CHOOSE j \in RowMatches(odd, cm, ur) :
         \A n \in RowMatches(odd, cm, ur) : j <= n

\* the column of the macro-tile counted in utiles instead of words
MtileOffset_narrow(w, r, c) == (r * 64) * w + c * 8

\* mtile = &out[pixrow * WIDTH + pixcol] with pixrow = row * 64, pixcol = col * 32
MtileOffset(w, r, c) == (r * 64) * w + c * 32

\* row and column of the utile taken for each other
UtileOffset_swapped(w, ur, uc) == uc * 8 * w + ur * 8

\* pixrow = ur * 8 * WIDTH + uc * 8
UtileOffset(w, ur, uc) == ur * 8 * w + uc * 8

\* the rows of a utile copied back to back instead of one frame row apart
RowStride_packed(w) == 8

\* for (r = 0; r < 8; ++r, pixrow += WIDTH): the stride of the row copies
RowStride(w) == w

\* A buffer of words is kept in lines of WIDTH words: word p of the buffer is
\* word p % WIDTH of line p / WIDTH
Peek(o, p) == o[p \div WIDTH][p % WIDTH]

Poke(o, p, v) == [o EXCEPT ![p \div WIDTH][p % WIDTH] = v]

\* memset(out, 0, size) on the fresh allocation of size bytes
ZeroBuffer(bytes) ==
  [y \in 0 .. (((bytes \div 4) \div WIDTH) - 1) |-> [x \in 0 .. (WIDTH - 1) |-> 0]]

\* memcpy(&o[dst], &u[src], 32): eight words; returns the new buffer
RECURSIVE CopyWords(_, _, _, _, _)
CopyWords(o, dst, u, src, n) ==
  IF n = 0 THEN o
  ELSE CopyWords(Poke(o, dst, u[src]), dst + 1, u, src + 1, n - 1)

\* the copy loop, lines 133-134, from row r on.  (The singleton set makes v
\* the buffer after row r, computed once, before the loop goes on.)
RECURSIVE CopyRows(_, _, _, _)
CopyRows(o, pixrow, u, r) ==
  IF r = 8 THEN o
  ELSE CHOOSE res \in
         { CopyRows(v, pixrow + RowStride(WIDTH), u, r + 1) :
             v \in { CopyWords(o, pixrow, u, r * 8, 8) } } :
         TRUE

\* history: the write counters after the copies of CopyWords and CopyRows
RECURSIVE CountWords(_, _, _)
CountWords(cnt, dst, n) ==
  IF n = 0 THEN cnt
  ELSE CountWords(Poke(cnt, dst, Peek(cnt, dst) + 1), dst + 1, n - 1)

RECURSIVE CountRows(_, _, _)
CountRows(cnt, pixrow, r) ==
  IF r = 8 THEN cnt
  ELSE CHOOSE res \in
         { CountRows(v, pixrow + RowStride(WIDTH), r + 1) :
             v \in { CountWords(cnt, pixrow, 8) } } :
         TRUE

\* the output words the copy loop writes, starting from pixrow
CopyTargets(pixrow) ==
  { pixrow + r * RowStride(WIDTH) + x : r \in 0 .. 7, x \in 0 .. 7 }

\* lines 109-127 for utile idx of a macro-tile in a row of the given parity
\* and a column of class cm = col % 4: the two searches and the two
\* assertions.  fault is 0, or the number of the assertion that fails
\* (1: line 119, 2: line 127); ur, uc are the values after line 126
Search(odd, cm, idx) ==
  LET cell == FindCell(odd, idx)
  IN  IF ~(cell[1] < 8 /\ cell[2] < 4)
      THEN [fault |-> 1, ur |-> cell[1], uc |-> cell[2]]
      ELSE LET j == FindRow(odd, cm, cell[1])
           IN  [fault |-> IF j < 8 /\ cell[2] < 4 THEN 0 ELSE 2, ur |-> j, uc |-> cell[2]]

\* the searches depend on the tables only: their results, computed once
SearchTable ==
  [odd \in BOOLEAN |-> [cm \in 0 .. 3 |-> [idx \in 0 .. 31 |-> Search(odd, cm, idx)]]]

\* odd = (row % 2) and col % 4 select the tables and the row of the second one
Placement(r, c, idx) == SearchTable[(r % 2) = 1][c % 4][idx]

\* line 130 relative to the start of out: where the copy loop starts
PlacePixrow(base, r, c, idx) ==
  base + UtileOffset(WIDTH, Placement(r, c, idx).ur, Placement(r, c, idx).uc)

\* the input cursor advanced by one utile instead of one macro-tile
MtileWords_utile == NUM_WORDS_PER_UTILE

\* buf += NUM_UTILES_PER_MTILE * NUM_WORDS_PER_UTILE, line 177
MtileWords == NUM_UTILES_PER_MTILE * NUM_WORDS_PER_UTILE

\* the utiles at which an assertion of decode_mtile(.., r, c, ..) would fail
FaultyUtiles(r, c) ==
  { idx \in 0 .. (NUM_UTILES_PER_MTILE - 1) : Placement(r, c, idx).fault # 0 }

\* the first utile at which an assertion fails and the loop ends, or 32
FirstFault(r, c) ==
  IF FaultyUtiles(r, c) = {}
  THEN NUM_UTILES_PER_MTILE
  ELSE CHOOSE idx \in FaultyUtiles(r, c) : \A n \in FaultyUtiles(r, c) : idx <= n

\* one pass of the loop body, lines 102-134, that meets no failing assertion
DecodeOneUtile(o, kind, buf, base, r, c, idx) ==
  CopyRows(o, PlacePixrow(base, r, c, idx),
           decode_utile(kind, buf + idx * NUM_WORDS_PER_UTILE), 0)

\* the passes of the loop of decode_mtile, lines 100-135, for the utiles
\* lo .. hi - 1 in this order: those below the middle first, then the rest on
\* the buffer v they leave
RECURSIVE DecodeUtiles(_, _, _, _, _, _, _, _)
DecodeUtiles(o, kind, buf, base, r, c, lo, hi) ==
  IF hi <= lo THEN o
  ELSE IF hi = lo + 1 THEN DecodeOneUtile(o, kind, buf, base, r, c, lo)
  ELSE CHOOSE res \in
         { DecodeUtiles(v, kind, buf, base, r, c, (lo + hi) \div 2, hi) :
             v \in { DecodeUtiles(o, kind, buf, base, r, c, lo, (lo + hi) \div 2) } } :
         TRUE

\* history: the write counters after the same passes
RECURSIVE CountUtiles(_, _, _, _, _, _)
CountUtiles(cnt, base, r, c, lo, hi) ==
  IF hi <= lo THEN cnt
  ELSE IF hi = lo + 1 THEN CountRows(cnt, PlacePixrow(base, r, c, lo), 0)
  ELSE CHOOSE res \in
         { CountUtiles(v, base, r, c, (lo + hi) \div 2, hi) :
             v \in { CountUtiles(cnt, base, r, c, lo, (lo + hi) \div 2) } } :
         TRUE

\* the last utile decode_utile is called for during decode_mtile(.., r, c, ..)
LastUtile(r, c) ==
  IF FirstFault(r, c) < NUM_UTILES_PER_MTILE
  THEN FirstFault(r, c)
  ELSE NUM_UTILES_PER_MTILE - 1

\* the input words one call of decode_mtile reads through buf
MtileReads(buf, r, c) ==
  UNION { UtileReads(buf + idx * NUM_WORDS_PER_UTILE) : idx \in 0 .. LastUtile(r, c) }

\* the output words one call of decode_mtile writes, out starting at base
MtileTargets(base, r, c) ==
  UNION { CopyTargets(PlacePixrow(base, r, c, idx)) :
            idx \in { n \in 0 .. (NUM_UTILES_PER_MTILE - 1) : n < FirstFault(r, c) } }

\* how many of the assertions at lines 119 and 127 the call evaluates
AssertsEvaluated(r, c) ==
  IF FirstFault(r, c) < NUM_UTILES_PER_MTILE
  THEN 2 * FirstFault(r, c) + Placement(r, c, FirstFault(r, c)).fault
  ELSE 2 * NUM_UTILES_PER_MTILE

----------------------------------------------------------------------------
(* main                                                                    *)

Init ==
  /\ pc = "start"
  /\ status = "running"
  /\ argc \in {2, 3}
  /\ fileLen \in FileLens
  /\ fileKind \in FileKinds
  /\ size = 0
  /\ bufKind = "garbage"
  /\ readOk = FALSE
  /\ cursor = 0
  /\ out = << >>
  /\ utile = [o \in 0 .. 63 |-> 0]
  /\ row = 0
  /\ col = 0
  /\ mtile = 0
  /\ outOpened = FALSE
  /\ outWritten = "none"
  /\ calls = << >>
  /\ wcount = << >>
  /\ utilesDecoded = 0
  /\ matchAsserts = 0
  /\ sizeChecked = FALSE
  /\ workers = << >>

\* lines 144-147
CheckArgs ==
  /\ pc = "start"
  /\ IF argc # 3
     THEN pc' = "exit" /\ status' = "EINVAL"
     ELSE pc' = "open_in" /\ status' = status
  /\ UNCHANGED << argc, fileLen, fileKind, size, bufKind, readOk, cursor, out,
                  utile, row, col, mtile, outOpened, outWritten, calls,
                  wcount, utilesDecoded, matchAsserts, sizeChecked, workers >>

\* lines 149-154: fopen, and the size from fseek/ftell
OpenInput ==
  /\ pc = "open_in"
  /\ \E ok \in BOOLEAN :
       IF ok
       THEN pc' = "alloc_buf" /\ size' = ftell_to_int(fileLen) /\ status' = status
       ELSE pc' = "exit" /\ size' = size /\ status' = "errno"
  /\ UNCHANGED << argc, fileLen, fileKind, bufKind, readOk, cursor, out,
                  utile, row, col, mtile, outOpened, outWritten, calls,
                  wcount, utilesDecoded, matchAsserts, sizeChecked, workers >>

\* lines 156-158
AllocBuf ==
  /\ pc = "alloc_buf"
  /\ \E ok \in BOOLEAN :
       IF ok
       THEN pc' = "read_in" /\ status' = status
       ELSE pc' = "exit" /\ status' = "ENOMEM"
  /\ UNCHANGED << argc, fileLen, fileKind, size, bufKind, readOk, cursor, out,
                  utile, row, col, mtile, outOpened, outWritten, calls,
                  wcount, utilesDecoded, matchAsserts, sizeChecked, workers >>

\* lines 159-160: the result of fread is not looked at; after a failed read
\* the buffer holds whatever the allocation held
ReadInput ==
  /\ pc = "read_in"
  /\ \E ok \in BOOLEAN :
       /\ readOk' = ok
       /\ bufKind' = IF ok THEN fileKind ELSE "garbage"
  /\ pc' = "check_size"
  /\ UNCHANGED << status, argc, fileLen, fileKind, size, cursor, out,
                  utile, row, col, mtile, outOpened, outWritten, calls,
                  wcount, utilesDecoded, matchAsserts, sizeChecked, workers >>

\* line 162
CheckSize ==
  /\ pc = "check_size"
  /\ sizeChecked' = TRUE
  /\ IF size = EXPECTED_SIZE
     THEN pc' = "alloc_out" /\ status' = status
     ELSE pc' = "abort" /\ status' = "SIGABRT"
  /\ UNCHANGED << argc, fileLen, fileKind, size, bufKind, readOk, cursor, out,
                  utile, row, col, mtile, outOpened, outWritten, calls,
                  wcount, utilesDecoded, matchAsserts, workers >>

\* lines 163-166, and the initialisation of the loops at 169-170
AllocOut ==
  /\ pc = "alloc_out"
  /\ \E ok \in BOOLEAN :
       IF ok
       THEN /\ pc' = "loop"
            /\ status' = status
            /\ out' = ZeroBuffer(size)
            /\ wcount' = ZeroBuffer(size)
       ELSE /\ pc' = "exit"
            /\ status' = "ENOMEM"
            /\ UNCHANGED << out, wcount >>
  /\ row' = 0
  /\ col' = 0
  /\ UNCHANGED << argc, fileLen, fileKind, size, bufKind, readOk, cursor,
                  utile, mtile, outOpened, outWritten, calls,
                  utilesDecoded, matchAsserts, sizeChecked, workers >>

\* one pass of the loop body of main, lines 171-177, with the loop steps of
\* lines 169-170: the call decode_mtile(buf, row, col, mtile) as a whole and
\* the advance of buf.  A failing assertion ends the process inside the call
DecodeMtile ==
  /\ pc = "loop"
  /\ row < HEIGHT \div 64
  /\ col < WIDTH \div 32
  /\ mtile' = MtileOffset(WIDTH, row, col)
  /\ calls' = Append(calls, <<row, col, cursor, mtile'>>)
  /\ out' = DecodeUtiles(out, bufKind, cursor, mtile', row, col, 0, FirstFault(row, col))
  /\ wcount' = CountUtiles(wcount, mtile', row, col, 0, FirstFault(row, col))
  /\ utile' = decode_utile(bufKind, cursor + LastUtile(row, col) * NUM_WORDS_PER_UTILE)
  /\ utilesDecoded' = utilesDecoded + LastUtile(row, col) + 1
  /\ matchAsserts' = matchAsserts + AssertsEvaluated(row, col)
  /\ IF FirstFault(row, col) < NUM_UTILES_PER_MTILE
     THEN /\ pc' = "abort"
          /\ status' = "SIGABRT"
          /\ UNCHANGED << cursor, row, col >>
     ELSE /\ pc' = pc
          /\ status' = status
          /\ cursor' = cursor + MtileWords
          /\ IF col + 1 < WIDTH \div 32
             THEN col' = col + 1 /\ row' = row
             ELSE col' = 0 /\ row' = row + 1
  /\ UNCHANGED << argc, fileLen, fileKind, size, bufKind, readOk,
                  outOpened, outWritten, sizeChecked, workers >>

\* lines 181-183, reached when the row loop ends
OpenOutput ==
  /\ pc = "loop"
  /\ ~(row < HEIGHT \div 64)
  /\ \E ok \in BOOLEAN :
       IF ok
       THEN pc' = "write_out" /\ status' = status /\ outOpened' = TRUE
       ELSE pc' = "exit" /\ status' = "errno" /\ outOpened' = outOpened
  /\ UNCHANGED << argc, fileLen, fileKind, size, bufKind, readOk, cursor, out,
                  utile, row, col, mtile, outWritten, calls,
                  wcount, utilesDecoded, matchAsserts, sizeChecked, workers >>

\* lines 184-186: the result of fwrite is not looked at; main ends without
\* a return statement, which is exit status 0
WriteOutput ==
  /\ pc = "write_out"
  /\ \E ok \in BOOLEAN : outWritten' = IF ok THEN "full" ELSE "short"
  /\ pc' = "exit"
  /\ status' = "0"
  /\ UNCHANGED << argc, fileLen, fileKind, size, bufKind, readOk, cursor, out,
                  utile, row, col, mtile, outOpened, calls,
                  wcount, utilesDecoded, matchAsserts, sizeChecked, workers >>

Next ==
  \/ CheckArgs
  \/ OpenInput
  \/ AllocBuf
  \/ ReadInput
  \/ CheckSize
  \/ AllocOut
  \/ DecodeMtile
  \/ OpenOutput
  \/ WriteOutput

Spec == Init /\ [][Next]_vars

----------------------------------------------------------------------------
(* decode_mtile run for two macro-tiles at once.  Two workers share the     *)
(* input, the output buffer and, as every execution of decode_mtile does,  *)
(* the static buffer utile; each runs decode_mtile(&buf[cell * 2048], row, *)
(* col, &out[row * 64 * WIDTH + col * 32]) for its own cell, and their     *)
(* steps interleave freely.  A step is the call of decode_utile at line   *)
(* 102, or the rest of the loop body, lines 109-134.  The workers stop     *)
(* after ParUtiles utiles.                                                  *)

ParUtiles == 2

\* the cells the second worker may have; the first has cell (0, 0)
ParCells == { <<0, 1>>, <<1, 0>>, <<1, 1>> }

\* where the slice of cell (r, c) starts in the input
SliceStart(r, c) == (r * (WIDTH \div 32) + c) * MtileWords

ParInit ==
  /\ pc = "decode_mtile"
  /\ status = "running"
  /\ argc = 3
  /\ fileLen = [hi |-> 0, lo |-> EXPECTED_SIZE]
  /\ fileKind \in FileKinds
  /\ size = EXPECTED_SIZE
  /\ bufKind = fileKind
  /\ readOk = TRUE
  /\ cursor = 0
  /\ out = ZeroBuffer(EXPECTED_SIZE)
  /\ utile = [o \in 0 .. 63 |-> 0]
  /\ row = 0
  /\ col = 0
  /\ mtile = 0
  /\ outOpened = FALSE
  /\ outWritten = "none"
  /\ calls = << >>
  /\ wcount = << >>
  /\ utilesDecoded = 0
  /\ matchAsserts = 0
  /\ sizeChecked = TRUE
  /\ \E cell \in ParCells :
       workers = [w \in {1, 2} |->
                    [r |-> IF w = 1 THEN 0 ELSE cell[1],
                     c |-> IF w = 1 THEN 0 ELSE cell[2],
                     i |-> 0,
                     at |-> "decode_utile"]]

\* line 102 in worker w: decode_utile(&buf[i * num], utile)
ParDecodeUtile(w) ==
  /\ workers[w].at = "decode_utile"
  /\ workers[w].i < NUM_UTILES_PER_MTILE
  /\ workers[w].i < ParUtiles
  /\ utile' = decode_utile(bufKind, SliceStart(workers[w].r, workers[w].c)
                                      + workers[w].i * NUM_WORDS_PER_UTILE)
  /\ utilesDecoded' = utilesDecoded + 1
  /\ workers' = [workers EXCEPT ![w].at = "place"]
  /\ UNCHANGED << pc, status, argc, fileLen, fileKind, size, bufKind, readOk, cursor,
                  out, row, col, mtile, outOpened, outWritten, calls,
                  wcount, matchAsserts, sizeChecked >>

\* lines 109-135 in worker w: the searches, the assertions, and the copy of
\* what utile holds now
ParPlaceUtile(w) ==
  /\ workers[w].at = "place"
  /\ IF Placement(workers[w].r, workers[w].c, workers[w].i).fault # 0
     THEN /\ pc' = "abort"
          /\ status' = "SIGABRT"
          /\ matchAsserts' = matchAsserts
                               + Placement(workers[w].r, workers[w].c, workers[w].i).fault
          /\ workers' = [workers EXCEPT ![w].at = "done"]
          /\ out' = out
     ELSE /\ pc' = pc
          /\ status' = status
          /\ matchAsserts' = matchAsserts + 2
          /\ out' = CopyRows(out,
                             PlacePixrow(MtileOffset(WIDTH, workers[w].r, workers[w].c),
                                         workers[w].r, workers[w].c, workers[w].i),
                             utile, 0)
          /\ workers' = [workers EXCEPT
                           ![w].i = @ + 1,
                           ![w].at = IF workers[w].i + 1 < ParUtiles
                                        /\ workers[w].i + 1 < NUM_UTILES_PER_MTILE
                                     THEN "decode_utile" ELSE "done"]
  /\ UNCHANGED << argc, fileLen, fileKind, size, bufKind, readOk, cursor,
                  utile, row, col, mtile, outOpened, outWritten, calls,
                  wcount, utilesDecoded, sizeChecked >>

ParNext ==
  \E w \in {1, 2} :
    \/ ParDecodeUtile(w)
    \/ ParPlaceUtile(w)

ParSpec == ParInit /\ [][ParNext]_vars

----------------------------------------------------------------------------
(* What the properties speak of                                            *)

\* the loops of main have ended: every cell has been handed to decode_mtile
DecodeComplete == row = HEIGHT \div 64

\* the input file has exactly the demanded length
LengthMatches == fileLen.hi = 0 /\ fileLen.lo = EXPECTED_SIZE

Terminated == pc \in {"exit", "abort"}

Cells == (0 .. (MtileRows - 1)) \X (0 .. (MtileCols - 1))

\* the inverse permutations of the tables
InvPrimary0 ==
  [idx \in 0 .. 31 |->
     CHOOSE c \in (0 .. 7) \X (0 .. 3) : mtile_decoder_0x[c[1] + 1][c[2] + 1] = idx]

InvPrimary1 ==
  [idx \in 0 .. 31 |->
     CHOOSE c \in (0 .. 7) \X (0 .. 3) : mtile_decoder_1x[c[1] + 1][c[2] + 1] = idx]

InvSecondary0 ==
  [cm \in 0 .. 3 |-> [ur \in 0 .. 7 |->
     CHOOSE j \in 0 .. 7 : mtile_decoder_0[cm + 1][j + 1] = ur]]

InvSecondary1 ==
  [cm \in 0 .. 3 |-> [ur \in 0 .. 7 |->
     CHOOSE j \in 0 .. 7 : mtile_decoder_1[cm + 1][j + 1] = ur]]

InvUtile ==
  [w \in 0 .. 63 |->
     CHOOSE o \in 0 .. 63 : utile_decoder[(o \div 8) + 1][(o % 8) + 1] = w]

\* the destination of raster position (y, x) of utile idx of cell (r, c) in a
\* frame of width w, as the tables' inverse permutations give it
ExpectedDest(w, r, c, idx, y, x) ==
  LET cell == IF r % 2 = 0 THEN InvPrimary0[idx] ELSE InvPrimary1[idx]
      j == IF r % 2 = 0 THEN InvSecondary0[c % 4][cell[1]]
                        ELSE InvSecondary1[c % 4][cell[1]]
  IN  r * 64 * w + c * 32 + (j * 8 + y) * w + cell[2] * 8 + x

\* the input word that raster position comes from, in a grid cols cells wide
ExpectedSrc(cols, r, c, idx, y, x) ==
  (r * cols + c) * 2048 + idx * 64 + utile_decoder[y + 1][x + 1]

\* the inverse transform: where input word k has to be fetched from
InverseDest(k) ==
  LET lin == k \div 2048
      o == InvUtile[k % 64]
  IN  ExpectedDest(WIDTH, lin \div MtileCols, lin % MtileCols,
                   (k % 2048) \div 64, o \div 8, o % 8)

\* the destination the code computes for the same position in a frame of width w
CodeDest(w, r, c, idx, y, x) ==
  MtileOffset(w, r, c)
    + UtileOffset(w, Placement(r, c, idx).ur, Placement(r, c, idx).uc)
    + y * RowStride(w) + x

\* the placement the code computes is the expected one at the source's own
\* geometry, 12 x 20 cells of a frame 1280 words wide
FullGeometryPlacement ==
  \A r \in 0 .. 11, c \in 0 .. 19, idx \in 0 .. 31 :
    /\ Placement(r, c, idx).fault = 0
    /\ \A y \in {0, 7}, x \in {0, 7} :
         CodeDest(FULL_WIDTH, r, c, idx, y, x)
           = ExpectedDest(FULL_WIDTH, r, c, idx, y, x)

----------------------------------------------------------------------------
\* C1: after the whole-frame decode of a correctly sized input, the output is
\* a rearrangement of the input without collision or gap: every output word
\* was written exactly once; with marker content (word k = k) every value k
\* occurs exactly once in the output; and the inverse transform built from
\* the inverse permutations gives back the input, whatever its content
C1_Bijection ==
  (DecodeComplete /\ LengthMatches) =>
    /\ out = [y \in 0 .. (HEIGHT - 1) |-> [x \in 0 .. (WIDTH - 1) |-> out[y][x]]]
    /\ \A p \in Words : Peek(wcount, p) = 1
    /\ bufKind = "marker" =>
         /\ \A p \in Words : Peek(out, p) \in Words
         /\ Cardinality({ Peek(out, p) : p \in Words }) = NumWords
    /\ \A k \in Words : Peek(out, InverseDest(k)) = InWord(bufKind, k)

C1_Witness ==
  /\ DecodeComplete /\ LengthMatches
  /\ bufKind = "marker"
  /\ pc = "write_out"
  /\ Peek(out, 0) = 0
  /\ Peek(out, NumWords - 1) # NumWords - 1

AllSearchesMatch ==
  \A cell \in Cells, idx \in 0 .. 31 :
    /\ FindCell(cell[1] % 2 = 1, idx)[1] < 8
    /\ FindCell(cell[1] % 2 = 1, idx)[2] < 4
    /\ FindRow(cell[1] % 2 = 1, cell[2] % 4, FindCell(cell[1] % 2 = 1, idx)[1]) < 8
    /\ Placement(cell[1], cell[2], idx).fault = 0

C3_NoDecodeFault ==
  /\ AllSearchesMatch
  /\ pc = "abort" => (utilesDecoded = 0 /\ matchAsserts = 0 /\ size # EXPECTED_SIZE)
  /\ matchAsserts = 2 * utilesDecoded

C3_Witness ==
  /\ pc = "loop"
  /\ DecodeComplete
  /\ bufKind = "garbage"
  /\ matchAsserts = 2 * NUM_UTILES

\* C4: an input whose length is not WIDTH * HEIGHT * 4 never gets past the
\* size check: no macro-tile is decoded, the output file is never opened or
\* written, and the run does not end with status 0
C4_WrongSizeRejected ==
  ~LengthMatches =>
    /\ pc \notin {"alloc_out", "loop", "write_out"}
    /\ calls = << >>
    /\ utilesDecoded = 0
    /\ ~outOpened
    /\ outWritten = "none"
    /\ status # "0"

C6_ParallelEqualsSequential ==
  (\A w \in DOMAIN workers : workers[w].at = "done") =>
    \A w \in DOMAIN workers, idx \in 0 .. (ParUtiles - 1), y \in 0 .. 7, x \in 0 .. 7 :
      Peek(out, ExpectedDest(WIDTH, workers[w].r, workers[w].c, idx, y, x))
        = InWord(bufKind, ExpectedSrc(MtileCols, workers[w].r, workers[w].c, idx, y, x))

\* the input slice and the output region of cell (r, c)
Slice(r, c) ==
  ((r * MtileCols + c) * 2048) .. ((r * MtileCols + c + 1) * 2048 - 1)

Region(r, c) ==
  { p \in Words : /\ (p \div WIDTH) \in (64 * r) .. (64 * r + 63)
                  /\ (p % WIDTH) \in (32 * c) .. (32 * c + 31) }

RegionsDisjoint ==
  \A a \in Cells, b \in Cells :
    a # b => Region(a[1], a[2]) \cap Region(b[1], b[2]) = {}

Entries(T, rows, cols) == { T[r][c] : r \in 1 .. rows, c \in 1 .. cols }

TablesArePermutations ==
  /\ Len(mtile_decoder_0x) = 8 /\ \A r \in 1 .. 8 : Len(mtile_decoder_0x[r]) = 4
  /\ Len(mtile_decoder_1x) = 8 /\ \A r \in 1 .. 8 : Len(mtile_decoder_1x[r]) = 4
  /\ Entries(mtile_decoder_0x, 8, 4) = 0 .. 31
  /\ Entries(mtile_decoder_1x, 8, 4) = 0 .. 31
  /\ Len(mtile_decoder_0) = 4 /\ Len(mtile_decoder_1) = 4
  /\ \A r \in 1 .. 4 :
       /\ Len(mtile_decoder_0[r]) = 8
       /\ Len(mtile_decoder_1[r]) = 8
       /\ { mtile_decoder_0[r][j] : j \in 1 .. 8 } = 0 .. 7
       /\ { mtile_decoder_1[r][j] : j \in 1 .. 8 } = 0 .. 7
  /\ Len(utile_decoder) = 8 /\ \A r \in 1 .. 8 : Len(utile_decoder[r]) = 8
  /\ Entries(utile_decoder, 8, 8) = 0 .. 63

\* C8: in every state of a run the five tables are bijections: the 32
\* entries of each primary table are a permutation of 0..31, every row of
\* each secondary table is a permutation of 0..7, the 64 entries of
\* utile_decoder are a permutation of 0..63.  (The tables are constants of
\* the program: no step has them among the things it can change.)
C8_TablesBijective ==
  /\ TablesArePermutations
  /\ utilesDecoded > 0 =>
       \A idx \in 0 .. 31 :
         /\ Cardinality(CellMatches(TRUE, idx)) = 1
         /\ Cardinality(CellMatches(FALSE, idx)) = 1

C8_Witness ==
  /\ pc = "exit"
  /\ status = "0"
  /\ utilesDecoded = NUM_UTILES
  /\ outWritten = "full"

\* C9: the run ends with status 0 only when the whole input was read and the
\* whole output was written; a failure to open, read, allocate or write ends
\* it with another status
C9_ZeroOnlyOnSuccess ==
  (pc = "exit" /\ status = "0") => (readOk /\ outWritten = "full")

\* C10: main calls decode_mtile once for every cell, in row-major order; at
\* the call for cell (r, c) the input cursor is (r*cols+c)*2048 words and the
\* destination r*64*WIDTH + c*32 words past the start of their buffers; the
\* loop ends (every pass makes one more call until all NUM_MTILES cells are
\* called), with the cursor advanced by WIDTH*HEIGHT words; the output file
\* is opened and written only after that
C10_CallOrder ==
  /\ Len(calls) <= NUM_MTILES
  /\ \A n \in 1 .. Len(calls) :
       calls[n] = << (n - 1) \div MtileCols,
                     (n - 1) % MtileCols,
                     (n - 1) * 2048,
                     ((n - 1) \div MtileCols) * 64 * WIDTH + ((n - 1) % MtileCols) * 32 >>
  /\ pc = "loop" => cursor = Len(calls) * 2048
  /\ DecodeComplete => (Len(calls) = NUM_MTILES /\ cursor = WIDTH * HEIGHT)
  /\ (outOpened \/ outWritten # "none" \/ pc = "write_out") =>
       (DecodeComplete /\ Len(calls) = NUM_MTILES /\ utilesDecoded = NUM_UTILES)

====
